---- MODULE Spec2Model ----
(***************************************************************************)
(* A model of AlxLib (src/AlxLib/Alxlib.h): the Lehmer generator and its   *)
(* three function-local static counters, the range mapper, Lerp and Clamp, *)
(* reverseBits and the findInVector helpers.                               *)
(*                                                                         *)
(* uint64_t values are sequences of 8 bytes, least significant first, so   *)
(* that every operation keeps its 64-bit width.  float values are records  *)
(* [s, e, m] standing for (-1)^s * m * 2^e with 2^23 <= m < 2^24 (24-bit   *)
(* significand, round to nearest even), or m = 0 for zero.                 *)
(***************************************************************************)
EXTENDS Integers, Sequences, FiniteSets, TLC

VARIABLES
    seedInt,     \* static uint64_t seed of LehmerInt64()
    seedFloat,   \* static uint64_t seed of LehmerFloat()
    seedBool,    \* static uint64_t seed of randBool()
    pc,          \* per thread: where it stands inside a no-seed call
    reg,         \* per thread: the value it loaded from the counter
    fam,         \* per thread: the entry point it is executing
    call,        \* the last completed call: [op, args, ret]
    nCalls,      \* history: completed no-seed calls per entry point
    used         \* history: the seeds the no-seed calls handed to the mixer

vars == <<seedInt, seedFloat, seedBool, pc, reg, fam, call, nCalls, used>>

(***************************************************************************)
(* Bounds of the model.                                                    *)
(***************************************************************************)
MaxCalls == 3        \* no-seed calls per entry point
NumThreads == 2      \* threads of the concurrent specification
MaxThreadCalls == 3  \* no-seed calls started in the concurrent specification
MaxLen == 4          \* longest vector handed to findInVector
MaxNth == 3          \* largest nth handed to findInVector
MaxVal == 3          \* Clamp arguments range over -MaxVal..MaxVal

(***************************************************************************)
(* uint64_t arithmetic on 8 bytes, least significant first.                *)
(***************************************************************************)
Byte == 0..255

U64Of(b0, b1, b2, b3, b4, b5, b6, b7) == <<b0, b1, b2, b3, b4, b5, b6, b7>>

Zero64 == U64Of(0, 0, 0, 0, 0, 0, 0, 0)

\* a natural number below 2^31 as a uint64_t
U64(n) ==
    U64Of(n % 256, (n \div 256) % 256, (n \div 65536) % 256, (n \div 16777216) % 256,
          0, 0, 0, 0)

RECURSIVE AddCarry(_, _, _, _)
AddCarry(a, b, i, carry) ==
    IF i > 8 THEN <<>>
    ELSE LET s == a[i] + b[i] + carry
         IN  <<s % 256>> \o AddCarry(a, b, i + 1, s \div 256)

\* a + b modulo 2^64
Add64(a, b) == AddCarry(a, b, 1, 0)

RECURSIVE ColumnSum(_, _, _, _)
ColumnSum(a, b, k, i) ==
    IF i > k THEN 0 ELSE a[i] * b[k + 1 - i] + ColumnSum(a, b, k, i + 1)

RECURSIVE MulCarry(_, _, _, _)
MulCarry(a, b, k, carry) ==
    IF k > 8 THEN <<>>
    ELSE LET s == ColumnSum(a, b, k, 1) + carry
         IN  <<s % 256>> \o MulCarry(a, b, k + 1, s \div 256)

\* a * b modulo 2^64
Mul64(a, b) == MulCarry(a, b, 1, 0)

\* a >> 32
Shr32(a) == U64Of(a[5], a[6], a[7], a[8], 0, 0, 0, 0)

RECURSIVE XorNat(_, _)
XorNat(x, y) ==
    IF x = 0 THEN y
    ELSE IF y = 0 THEN x
    ELSE ((x + y) % 2) + 2 * XorNat(x \div 2, y \div 2)

\* a ^ b
Xor64(a, b) ==
    U64Of(XorNat(a[1], b[1]), XorNat(a[2], b[2]), XorNat(a[3], b[3]), XorNat(a[4], b[4]),
          XorNat(a[5], b[5]), XorNat(a[6], b[6]), XorNat(a[7], b[7]), XorNat(a[8], b[8]))

\* seed++ on a uint64_t
Inc64(a) == Add64(a, U64(1))

UINT64_MAX == U64Of(255, 255, 255, 255, 255, 255, 255, 255)

\* a % 2
Mod2(a) == a[1] % 2

(***************************************************************************)
(* LehmerInt64(const uint64_t seed)                                        *)
(***************************************************************************)
LehmerAdd == U64Of(21, 252, 32, 225, 0, 0, 0, 0)     \* 0xe120fc15
LehmerMul1 == U64Of(13, 183, 57, 74, 0, 0, 0, 0)     \* 0x4a39b70d
LehmerMul2 == U64Of(201, 213, 250, 18, 0, 0, 0, 0)   \* 0x12fad5c9

\* the mixer with sLehmer held in 32 bits: the addition wraps at 2^32
LehmerInt64Narrow(seed) ==
    LET sum == Add64(seed, LehmerAdd)
        sLehmer == U64Of(sum[1], sum[2], sum[3], sum[4], 0, 0, 0, 0)
        tmp1 == Mul64(sLehmer, LehmerMul1)
        m1 == Xor64(Shr32(tmp1), tmp1)
        tmp2 == Mul64(m1, LehmerMul2)
    IN  Xor64(Shr32(tmp2), tmp2)

LehmerInt64(seed) ==
    LET sLehmer == Add64(seed, LehmerAdd)
        tmp1 == Mul64(sLehmer, LehmerMul1)
        m1 == Xor64(Shr32(tmp1), tmp1)
        tmp2 == Mul64(m1, LehmerMul2)
        m2 == Xor64(Shr32(tmp2), tmp2)
    IN  m2

\* bool randBool(const uint64_t seed)
randBool(seed) == Mod2(LehmerInt64(seed)) # 0

(***************************************************************************)
(* float arithmetic: 24-bit significand, round to nearest, ties to even.   *)
(* A float is [s, e, m], the value (-1)^s * m * 2^e, with m = 0 for zero   *)
(* and 2^23 <= m < 2^24 otherwise.  The inputs of the model keep every     *)
(* exponent inside the normal range of float, so neither infinities, NaNs  *)
(* nor subnormals arise.                                                   *)
(***************************************************************************)
RECURSIVE BitLen(_)
BitLen(n) == IF n = 0 THEN 0 ELSE 1 + BitLen(n \div 2)

FZero == [s |-> 0, e |-> 0, m |-> 0]

\* the float nearest to (-1)^s * (M + f) * 2^E, where 0 <= f < 1 and f # 0 iff st;
\* callers pass st = TRUE only with M of 26 bits or more
FRound(s, M, E, st) ==
    IF M = 0 THEN FZero
    ELSE LET L == BitLen(M)
         IN  IF L <= 24
             THEN [s |-> s, e |-> E - (24 - L), m |-> M * 2 ^ (24 - L)]
             ELSE LET k == L - 24
                      q == M \div (2 ^ k)
                      r == M % (2 ^ k)
                      half == 2 ^ (k - 1)
                      up == r > half \/ (r = half /\ (st \/ q % 2 = 1))
                      q2 == IF up THEN q + 1 ELSE q
                  IN  IF q2 = 2 ^ 24
                      THEN [s |-> s, e |-> E + k + 1, m |-> 2 ^ 23]
                      ELSE [s |-> s, e |-> E + k, m |-> q2]

FNeg(a) == IF a.m = 0 THEN a ELSE [a EXCEPT !.s = 1 - a.s]

\* abs(value) on a float
FAbs(a) == [a EXCEPT !.s = 0]

Signed(a) == IF a.s = 1 THEN 0 - a.m ELSE a.m

\* a + b
FAdd(a, b) ==
    IF a.m = 0 THEN b
    ELSE IF b.m = 0 THEN a
    ELSE LET big == IF a.e >= b.e THEN a ELSE b
             small == IF a.e >= b.e THEN b ELSE a
             d == big.e - small.e
         IN  IF d <= 6
             THEN LET X == Signed(big) * (2 ^ d) + Signed(small)
                  IN  IF X < 0 THEN FRound(1, 0 - X, small.e, FALSE)
                      ELSE FRound(0, X, small.e, FALSE)
             ELSE LET k == d - 6
                      q == IF k >= 24 THEN 0 ELSE small.m \div (2 ^ k)
                      st == IF k >= 24 THEN TRUE ELSE small.m % (2 ^ k) # 0
                      Mb == big.m * 64
                      mag == IF big.s = small.s THEN Mb + q
                             ELSE IF st THEN Mb - q - 1 ELSE Mb - q
                  IN  FRound(big.s, mag, big.e - 6, st)

\* a - b
FSub(a, b) == FAdd(a, FNeg(b))

\* a * b
FMul(a, b) ==
    IF a.m = 0 \/ b.m = 0 THEN FZero
    ELSE LET a1 == a.m \div 4096
             a0 == a.m % 4096
             b1 == b.m \div 4096
             b0 == b.m % 4096
             mid == a1 * b0 + a0 * b1
             low == a0 * b0 + (mid % 4096) * 4096
             lo == low % (2 ^ 24)
             hi == a1 * b1 + mid \div 4096 + low \div (2 ^ 24)
         IN  FRound((a.s + b.s) % 2, hi * 64 + lo \div (2 ^ 18),
                    a.e + b.e + 18, lo % (2 ^ 18) # 0)

RECURSIVE DivBits(_, _, _, _)
DivBits(r, d, n, acc) ==
    IF n = 0 THEN <<acc, r>>
    ELSE DivBits((2 * r) % d, d, n - 1, 2 * acc + (2 * r) \div d)

\* a / b for b # 0
FDiv(a, b) ==
    IF a.m = 0 THEN FZero
    ELSE LET qr == DivBits(a.m % b.m, b.m, 26, a.m \div b.m)
         IN  FRound((a.s + b.s) % 2, qr[1], a.e - b.e - 26, qr[2] # 0)

MagLt(a, b) == a.e < b.e \/ (a.e = b.e /\ a.m < b.m)

\* a < b
FLt(a, b) ==
    IF a.m = 0 THEN b.m # 0 /\ b.s = 0
    ELSE IF b.m = 0 THEN a.s = 1
    ELSE IF a.s # b.s THEN a.s = 1
    ELSE IF a.s = 0 THEN MagLt(a, b) ELSE MagLt(b, a)

\* a <= b
FLe(a, b) == ~FLt(b, a)

\* a >= b
FGe(a, b) == ~FLt(a, b)

\* the float with the value n * 2^e, for an integer n with |n| < 2^24
Dyadic(n, e) == IF n < 0 THEN FRound(1, 0 - n, e, FALSE) ELSE FRound(0, n, e, FALSE)

\* (float)n for an int32_t n
IntToFloat(n) ==
    IF n = 0 - 2147483647 - 1 THEN [s |-> 1, e |-> 8, m |-> 2 ^ 23]
    ELSE IF n < 0 THEN FRound(1, 0 - n, 0, FALSE)
    ELSE FRound(0, n, 0, FALSE)

FOne == Dyadic(1, 0)

ByteAt(a, i) == IF i <= 8 THEN a[i] ELSE 0

ShrByte(a, q, r, i) ==
    ByteAt(a, i + q) \div (2 ^ r) + (ByteAt(a, i + q + 1) % (2 ^ r)) * (2 ^ (8 - r))

\* a >> n on a uint64_t, 0 <= n < 64
ShrBits(a, n) ==
    LET q == n \div 8
        r == n % 8
    IN  U64Of(ShrByte(a, q, r, 1), ShrByte(a, q, r, 2), ShrByte(a, q, r, 3),
              ShrByte(a, q, r, 4), ShrByte(a, q, r, 5), ShrByte(a, q, r, 6),
              ShrByte(a, q, r, 7), ShrByte(a, q, r, 8))

\* whether one of the low n bits of a is set
LowBitsSet(a, n) ==
    \/ \E i \in 1..(n \div 8) : a[i] # 0
    \/ ByteAt(a, n \div 8 + 1) % (2 ^ (n % 8)) # 0

RECURSIVE TopByte(_, _)
TopByte(a, i) == IF i = 0 THEN 0 ELSE IF a[i] # 0 THEN i ELSE TopByte(a, i - 1)

\* the number of significant bits of a uint64_t
BitLen64(a) ==
    LET t == TopByte(a, 8) IN IF t = 0 THEN 0 ELSE 8 * (t - 1) + BitLen(a[t])

\* the value of a uint64_t that is below 2^31
Low31(a) == a[1] + 256 * a[2] + 65536 * a[3] + 16777216 * a[4]

\* (float)a for a uint64_t a
U64ToFloat(a) ==
    LET L == BitLen64(a)
    IN  IF L <= 30 THEN FRound(0, Low31(a), 0, FALSE)
        ELSE FRound(0, Low31(ShrBits(a, L - 26)), L - 26, LowBitsSet(a, L - 26))

\* float LehmerFloat(const uint64_t seed)
LehmerFloat(seed) == FDiv(U64ToFloat(LehmerInt64(seed)), U64ToFloat(UINT64_MAX))

(***************************************************************************)
(* tpl::Lerp, tpl::Clamp and their float wrappers.  Each float operation   *)
(* is rounded to float on its own (FLT_EVAL_METHOD 0, no contraction).     *)
(***************************************************************************)
\* tpl::Lerp<float, float>: (T)(A + alpha * (B - A))
fLerp(A, B, alpha) == FAdd(A, FMul(alpha, FSub(B, A)))

\* Clamp written as min(max(value, Min), Max)
ClampMinOfMax(value, Min, Max) ==
    LET t == IF value < Min THEN Min ELSE value
    IN  IF t < Max THEN t ELSE Max

\* tpl::Clamp<int>
Clamp(value, Min, Max) ==
    IF value < Min THEN Min ELSE IF value < Max THEN value ELSE Max

\* float fClamp(float value, float min, float max): tpl::Clamp<float>
fClamp(value, min, max) ==
    IF FLt(value, min) THEN min ELSE IF FLt(value, max) THEN value ELSE max

INT32_MAX == 2147483647
INT32_MIN == 0 - 2147483647 - 1

Value(n) == [ok |-> TRUE, v |-> n]
Trap == [ok |-> FALSE, v |-> 0]

\* B - A on int32_t: signed overflow is undefined; the builds either wrap or trap
SubInt32(B, A) ==
    IF B >= 0 /\ A < 0 /\ B > INT32_MAX + A
    THEN {Value((B - INT32_MAX - 1) - (A + INT32_MAX + 1)), Trap}
    ELSE IF B < 0 /\ A > 0 /\ B < INT32_MIN + A
    THEN {Value((B + INT32_MAX + 1) - (A - INT32_MAX - 1)), Trap}
    ELSE {Value(B - A)}

\* (int32_t)f: truncation; out of range is undefined: INT32_MIN (x86 cvttss2si),
\* the saturated value (ARM fcvtzs) or a trap
FloatToInt32(f) ==
    IF f.m = 0 THEN {Value(0)}
    ELSE IF f.e >= 8
    THEN IF f.s = 1 /\ f.e = 8 /\ f.m = 2 ^ 23 THEN {Value(INT32_MIN)}
         ELSE {Value(INT32_MIN), Value(IF f.s = 1 THEN INT32_MIN ELSE INT32_MAX), Trap}
    ELSE IF f.e >= 0 THEN {Value(Signed(f) * 2 ^ f.e)}
    ELSE IF 0 - f.e >= 24 THEN {Value(0)}
    ELSE {Value(IF f.s = 1 THEN 0 - (f.m \div 2 ^ (0 - f.e)) ELSE f.m \div 2 ^ (0 - f.e))}

\* tpl::Lerp<int32_t, float>: the outcomes of (T)(A + alpha * (B - A))
LerpInt32(A, B, alpha) ==
    UNION {IF d.ok
           THEN FloatToInt32(FAdd(IntToFloat(A), FMul(alpha, IntToFloat(d.v))))
           ELSE {Trap} : d \in SubInt32(B, A)}

(***************************************************************************)
(* The range mapper.                                                       *)
(***************************************************************************)
\* 1.e-8f: the float nearest to 1 / 10^8, and 10^8 = 390625 * 2^8 is a float
SMALL_NUMBER == FDiv(FOne, Dyadic(390625, 8))

\* bool NearTolerance(float value, float errorTolerance = SMALL_NUMBER)
NearTolerance(value, errorTolerance) == FLe(FAbs(value), errorTolerance)

\* GetRangeAlpha deciding the degenerate range against minValue
GetRangeAlphaAgainstMin(minValue, maxValue, value) ==
    LET div == FSub(maxValue, minValue)
    IN  IF NearTolerance(div, SMALL_NUMBER)
        THEN IF FGe(value, minValue) THEN FOne ELSE FZero
        ELSE FDiv(FSub(value, minValue), div)

GetRangeAlpha(minValue, maxValue, value) ==
    LET div == FSub(maxValue, minValue)
    IN  IF NearTolerance(div, SMALL_NUMBER)
        THEN IF FGe(value, maxValue) THEN FOne ELSE FZero
        ELSE FDiv(FSub(value, minValue), div)

GetMappedValueUnclamped(inMin, inMax, outMin, outMax, value) ==
    fLerp(outMin, outMax, GetRangeAlpha(inMin, inMax, value))

GetMappedValueClamped(inMin, inMax, outMin, outMax, value) ==
    LET clampedAlpha == fClamp(GetRangeAlpha(inMin, inMax, value), FZero, FOne)
    IN  fLerp(outMin, outMax, clampedAlpha)

(***************************************************************************)
(* Bit operations: a uint32_t is a sequence of 4 bytes, least significant  *)
(* first.                                                                  *)
(***************************************************************************)
U32Of(b0, b1, b2, b3) == <<b0, b1, b2, b3>>

RECURSIVE AndNat(_, _)
AndNat(x, y) ==
    IF x = 0 \/ y = 0 THEN 0
    ELSE (x % 2) * (y % 2) + 2 * AndNat(x \div 2, y \div 2)

RECURSIVE OrNat(_, _)
OrNat(x, y) ==
    IF x = 0 THEN y
    ELSE IF y = 0 THEN x
    ELSE (IF x % 2 = 1 \/ y % 2 = 1 THEN 1 ELSE 0) + 2 * OrNat(x \div 2, y \div 2)

\* a & mask, for a mask that fits a byte (an int literal converted to uint32_t)
And32(a, mask) == U32Of(AndNat(a[1], mask), 0, 0, 0)

\* a | b
Or32(a, b) ==
    U32Of(OrNat(a[1], b[1]), OrNat(a[2], b[2]), OrNat(a[3], b[3]), OrNat(a[4], b[4]))

\* a >> n on a uint32_t, 0 < n < 8
Shr32By(a, n) ==
    U32Of(a[1] \div (2 ^ n) + (a[2] % (2 ^ n)) * (2 ^ (8 - n)),
          a[2] \div (2 ^ n) + (a[3] % (2 ^ n)) * (2 ^ (8 - n)),
          a[3] \div (2 ^ n) + (a[4] % (2 ^ n)) * (2 ^ (8 - n)),
          a[4] \div (2 ^ n))

\* a << n on a uint32_t (modulo 2^32), 0 < n < 8
Shl32By(a, n) ==
    U32Of((a[1] * (2 ^ n)) % 256,
          ((a[2] * (2 ^ n)) % 256) + (a[1] \div (2 ^ (8 - n))),
          ((a[3] * (2 ^ n)) % 256) + (a[2] \div (2 ^ (8 - n))),
          ((a[4] * (2 ^ n)) % 256) + (a[3] \div (2 ^ (8 - n))))

\* reverseBits without its last stage
reverseBitsTwoStages(a) ==
    LET a1 == Or32(Shr32By(And32(a, 240), 4), Shl32By(And32(a, 15), 4))
    IN  Or32(Shr32By(And32(a1, 204), 2), Shl32By(And32(a1, 51), 2))

\* uint32_t reverseBits(uint32_t a)
reverseBits(a) ==
    LET a1 == Or32(Shr32By(And32(a, 240), 4), Shl32By(And32(a, 15), 4))
        a2 == Or32(Shr32By(And32(a1, 204), 2), Shl32By(And32(a1, 51), 2))
        a3 == Or32(Shr32By(And32(a2, 170), 1), Shl32By(And32(a2, 85), 1))
    IN  a3

(***************************************************************************)
(* findInVector: the loops, with the 0-based index i of the code.          *)
(***************************************************************************)
RECURSIVE FindLoop(_, _, _)
FindLoop(a, vect, i) ==
    IF ~(i < Len(vect)) THEN 0 - 1
    ELSE IF a = vect[i + 1] THEN i
    ELSE FindLoop(a, vect, i + 1)

\* int findInVector(T a, std::vector<T> vect)
findInVector(a, vect) == FindLoop(a, vect, 0)

RECURSIVE FindNthLoop(_, _, _, _, _)
FindNthLoop(a, vect, nth, i, iteration) ==
    IF ~(i < Len(vect)) THEN 0 - 1
    ELSE IF a = vect[i + 1]
    THEN IF iteration = nth THEN i
         ELSE FindNthLoop(a, vect, nth, i + 1, iteration + 1)
    ELSE FindNthLoop(a, vect, nth, i + 1, iteration)

\* the nth search counting occurrences from 0
findInVectorNthFromZero(a, vect, nth) == FindNthLoop(a, vect, nth, 0, 0)

\* int findInVector(T a, std::vector<T> vect, int nth)
findInVectorNth(a, vect, nth) == FindNthLoop(a, vect, nth, 0, 1)

(***************************************************************************)
(* The state machine.  call holds the last completed call.                 *)
(***************************************************************************)
Threads == 1..NumThreads
Families == {"int", "float", "bool"}
NoCall == [op |-> "none", args |-> <<>>, ret |-> 0, done |-> TRUE]

\* function-local statics are zero-initialised; the history is empty
Statics ==
    /\ seedInt = Zero64
    /\ seedFloat = Zero64
    /\ seedBool = Zero64
    /\ pc = [t \in Threads |-> "idle"]
    /\ reg = [t \in Threads |-> Zero64]
    /\ fam = [t \in Threads |-> "none"]
    /\ nCalls = [f \in Families |-> 0]
    /\ used = [f \in Families |-> <<>>]

Init == Statics /\ call = NoCall

\* the explicit seeds the model passes to the seeded entry points
Seeds ==
    {U64(0), U64(1), U64Of(1, 0, 0, 0, 1, 0, 0, 0), U64Of(235, 3, 223, 30, 255, 255, 255, 255),
     UINT64_MAX}

(***************************************************************************)
(* One thread: every call runs from entry to return without interleaving.  *)
(***************************************************************************)
\* LehmerInt64() handing the mixer the value of the counter before the increment
LehmerInt64NoSeedStale ==
    /\ nCalls["int"] < MaxCalls
    /\ seedInt' = Inc64(seedInt)
    /\ call' = [op |-> "LehmerInt64()", args |-> <<>>,
                ret |-> LehmerInt64(seedInt), done |-> TRUE]
    /\ nCalls' = [nCalls EXCEPT !["int"] = @ + 1]
    /\ used' = [used EXCEPT !["int"] = Append(@, seedInt)]
    /\ UNCHANGED <<seedFloat, seedBool, pc, reg, fam>>

\* uint64_t LehmerInt64()
LehmerInt64NoSeed ==
    /\ nCalls["int"] < MaxCalls
    /\ seedInt' = Inc64(seedInt)
    /\ call' = [op |-> "LehmerInt64()", args |-> <<>>,
                ret |-> LehmerInt64(seedInt'), done |-> TRUE]
    /\ nCalls' = [nCalls EXCEPT !["int"] = @ + 1]
    /\ used' = [used EXCEPT !["int"] = Append(@, seedInt')]
    /\ UNCHANGED <<seedFloat, seedBool, pc, reg, fam>>

\* LehmerFloat() counting on the counter of LehmerInt64()
LehmerFloatNoSeedShared ==
    /\ nCalls["float"] < MaxCalls
    /\ seedInt' = Inc64(seedInt)
    /\ call' = [op |-> "LehmerFloat()", args |-> <<>>,
                ret |-> FDiv(U64ToFloat(LehmerInt64(seedInt')), U64ToFloat(UINT64_MAX)),
                done |-> TRUE]
    /\ nCalls' = [nCalls EXCEPT !["float"] = @ + 1]
    /\ used' = [used EXCEPT !["float"] = Append(@, seedInt')]
    /\ UNCHANGED <<seedFloat, seedBool, pc, reg, fam>>

\* float LehmerFloat()
LehmerFloatNoSeed ==
    /\ nCalls["float"] < MaxCalls
    /\ seedFloat' = Inc64(seedFloat)
    /\ call' = [op |-> "LehmerFloat()", args |-> <<>>,
                ret |-> FDiv(U64ToFloat(LehmerInt64(seedFloat')), U64ToFloat(UINT64_MAX)),
                done |-> TRUE]
    /\ nCalls' = [nCalls EXCEPT !["float"] = @ + 1]
    /\ used' = [used EXCEPT !["float"] = Append(@, seedFloat')]
    /\ UNCHANGED <<seedInt, seedBool, pc, reg, fam>>

\* bool randBool()
randBoolNoSeed ==
    /\ nCalls["bool"] < MaxCalls
    /\ seedBool' = Inc64(seedBool)
    /\ call' = [op |-> "randBool()", args |-> <<>>,
                ret |-> Mod2(LehmerInt64(seedBool')) # 0,
                done |-> TRUE]
    /\ nCalls' = [nCalls EXCEPT !["bool"] = @ + 1]
    /\ used' = [used EXCEPT !["bool"] = Append(@, seedBool')]
    /\ UNCHANGED <<seedInt, seedFloat, pc, reg, fam>>

\* uint64_t LehmerInt64(const uint64_t seed)
LehmerInt64Seeded ==
    \E seed \in Seeds :
        /\ call' = [op |-> "LehmerInt64(seed)", args |-> <<seed>>,
                    ret |-> LehmerInt64(seed), done |-> TRUE]
        /\ UNCHANGED <<seedInt, seedFloat, seedBool, pc, reg, fam, nCalls, used>>

\* float LehmerFloat(const uint64_t seed)
LehmerFloatSeeded ==
    \E seed \in Seeds :
        /\ call' = [op |-> "LehmerFloat(seed)", args |-> <<seed>>,
                    ret |-> LehmerFloat(seed), done |-> TRUE]
        /\ UNCHANGED <<seedInt, seedFloat, seedBool, pc, reg, fam, nCalls, used>>

\* bool randBool(const uint64_t seed)
randBoolSeeded ==
    \E seed \in Seeds :
        /\ call' = [op |-> "randBool(seed)", args |-> <<seed>>,
                    ret |-> randBool(seed), done |-> TRUE]
        /\ UNCHANGED <<seedInt, seedFloat, seedBool, pc, reg, fam, nCalls, used>>

Next ==
    \/ LehmerInt64NoSeed
    \/ LehmerFloatNoSeed
    \/ randBoolNoSeed
    \/ LehmerInt64Seeded
    \/ LehmerFloatSeeded
    \/ randBoolSeeded

Spec == Init /\ [][Next]_vars

(***************************************************************************)
(* Several threads in the no-seed entry points.  The counters are plain    *)
(* uint64_t statics, so seed++ is a load, an add and a store that other    *)
(* threads interleave with, and the read of seed that follows is either    *)
(* the value kept in the register or a fresh load: a data race, of which   *)
(* the model takes every outcome.                                          *)
(***************************************************************************)
Counter(f) == IF f = "int" THEN seedInt ELSE IF f = "float" THEN seedFloat ELSE seedBool

InFlight == Cardinality({t \in Threads : pc[t] # "idle"})

Started == nCalls["int"] + nCalls["float"] + nCalls["bool"] + InFlight

\* the value the entry point of family f returns for the seed it hands over
Returned(f, seed) ==
    IF f = "int" THEN LehmerInt64(seed)
    ELSE IF f = "float" THEN FDiv(U64ToFloat(LehmerInt64(seed)), U64ToFloat(UINT64_MAX))
    ELSE Mod2(LehmerInt64(seed)) # 0

OpName(f) ==
    IF f = "int" THEN "LehmerInt64()" ELSE IF f = "float" THEN "LehmerFloat()" ELSE "randBool()"

\* thread t enters the no-seed entry point of family f
Enter(t, f) ==
    /\ pc[t] = "idle"
    /\ Started < MaxThreadCalls
    /\ pc' = [pc EXCEPT ![t] = "load"]
    /\ fam' = [fam EXCEPT ![t] = f]
    /\ UNCHANGED <<seedInt, seedFloat, seedBool, reg, call, nCalls, used>>

\* seed++: the load
LoadSeed(t) ==
    /\ pc[t] = "load"
    /\ reg' = [reg EXCEPT ![t] = Counter(fam[t])]
    /\ pc' = [pc EXCEPT ![t] = "store"]
    /\ UNCHANGED <<seedInt, seedFloat, seedBool, fam, call, nCalls, used>>

\* seed++: the add and the store
StoreSeed(t) ==
    /\ pc[t] = "store"
    /\ reg' = [reg EXCEPT ![t] = Inc64(reg[t])]
    /\ seedInt' = IF fam[t] = "int" THEN Inc64(reg[t]) ELSE seedInt
    /\ seedFloat' = IF fam[t] = "float" THEN Inc64(reg[t]) ELSE seedFloat
    /\ seedBool' = IF fam[t] = "bool" THEN Inc64(reg[t]) ELSE seedBool
    /\ pc' = [pc EXCEPT ![t] = "mix"]
    /\ UNCHANGED <<fam, call, nCalls, used>>

\* return LehmerInt64(seed): seed read from the register or loaded again
MixSeed(t) ==
    /\ pc[t] = "mix"
    /\ \E seed \in {reg[t], Counter(fam[t])} :
        /\ call' = [op |-> OpName(fam[t]), args |-> <<>>,
                    ret |-> Returned(fam[t], seed), done |-> TRUE]
        /\ used' = [used EXCEPT ![fam[t]] = Append(@, seed)]
    /\ nCalls' = [nCalls EXCEPT ![fam[t]] = @ + 1]
    /\ pc' = [pc EXCEPT ![t] = "idle"]
    /\ fam' = [fam EXCEPT ![t] = "none"]
    /\ reg' = [reg EXCEPT ![t] = Zero64]
    /\ UNCHANGED <<seedInt, seedFloat, seedBool>>

NextThreads ==
    \E t \in Threads :
        \/ \E f \in Families : Enter(t, f)
        \/ LoadSeed(t)
        \/ StoreSeed(t)
        \/ MixSeed(t)

SpecThreads == Init /\ [][NextThreads]_vars

\* C2: when several threads call the same no-seed entry point, no increment is
\* lost and every call gets a seed of its own: once the calls have returned, each
\* counter equals the number of calls and the seeds used are pairwise different
C2_ConcurrentCallsGetDistinctSeeds ==
    (\A t \in Threads : pc[t] = "idle") =>
        \A f \in Families :
            /\ Counter(f) = U64(nCalls[f])
            /\ \A i, j \in 1..Len(used[f]) : i # j => used[f][i] # used[f][j]

(***************************************************************************)
(* Properties of the no-seed entry points, one thread.                     *)
(***************************************************************************)
\* the seeds 1, 2, ..., k
FirstSeeds(k) == [i \in 1..k |-> U64(i)]

\* C1: each counter starts at 0 and every no-seed call increments it by 1 and
\* passes the incremented value on: the k-th call of an entry point returns what
\* the seeded function returns for seed k, and the seeds used are 1, 2, ..., k
C1_NoSeedCallUsesItsCallNumber ==
    /\ seedInt = U64(nCalls["int"])
    /\ seedFloat = U64(nCalls["float"])
    /\ seedBool = U64(nCalls["bool"])
    /\ \A f \in Families : used[f] = FirstSeeds(nCalls[f])
    /\ call.op = "LehmerInt64()" => call.ret = LehmerInt64(U64(nCalls["int"]))
    /\ call.op = "LehmerFloat()" => call.ret = LehmerFloat(U64(nCalls["float"]))
    /\ call.op = "randBool()" => call.ret = randBool(U64(nCalls["bool"]))

\* the second LehmerFloat() returns LehmerFloat(2) = 10034587 * 2^-24
C1_Witness ==
    /\ call.op = "LehmerFloat()"
    /\ nCalls["float"] = 2
    /\ call.ret = [s |-> 0, e |-> 0 - 24, m |-> 10034587]
    /\ used["float"] = <<U64(1), U64(2)>>

SeededOps == {"LehmerInt64(seed)", "LehmerFloat(seed)", "randBool(seed)"}

\* C3: a no-seed call changes the counter of its own entry point only, a seeded
\* call changes no counter, and the k-th no-seed call of an entry point returns
\* the seeded value of k whatever calls were made before it
C3_CountersAreSeparate ==
    [][/\ nCalls'["int"] # nCalls["int"] =>
            /\ seedInt' = Inc64(seedInt)
            /\ UNCHANGED <<seedFloat, seedBool>>
            /\ call'.ret = LehmerInt64(U64(nCalls'["int"]))
       /\ nCalls'["float"] # nCalls["float"] =>
            /\ seedFloat' = Inc64(seedFloat)
            /\ UNCHANGED <<seedInt, seedBool>>
            /\ call'.ret = LehmerFloat(U64(nCalls'["float"]))
       /\ nCalls'["bool"] # nCalls["bool"] =>
            /\ seedBool' = Inc64(seedBool)
            /\ UNCHANGED <<seedInt, seedFloat>>
            /\ call'.ret = randBool(U64(nCalls'["bool"]))
       /\ nCalls' = nCalls => UNCHANGED <<seedInt, seedFloat, seedBool>>
       /\ call'.op \in SeededOps => nCalls' = nCalls]_vars

\* a seeded call made after no-seed calls of all three entry points, the counters
\* standing at the numbers of calls
C3_Witness ==
    /\ call.op = "randBool(seed)"
    /\ nCalls["int"] = 2 /\ nCalls["float"] = 1 /\ nCalls["bool"] = 1
    /\ seedInt = U64(2) /\ seedFloat = U64(1) /\ seedBool = U64(1)

(***************************************************************************)
(* 64-bit words as 16 hexadecimal digits, least significant first: the     *)
(* arithmetic modulo 2^64 the properties of the mixer are stated in.       *)
(***************************************************************************)
HexOf(a) ==
    <<a[1] % 16, a[1] \div 16, a[2] % 16, a[2] \div 16, a[3] % 16, a[3] \div 16,
      a[4] % 16, a[4] \div 16, a[5] % 16, a[5] \div 16, a[6] % 16, a[6] \div 16,
      a[7] % 16, a[7] \div 16, a[8] % 16, a[8] \div 16>>

\* the word written 0xh1h2...h8
Hex32(h) == <<h[8], h[7], h[6], h[5], h[4], h[3], h[2], h[1], 0, 0, 0, 0, 0, 0, 0, 0>>

RECURSIVE HexAddFrom(_, _, _, _)
HexAddFrom(x, y, k, carry) ==
    IF k > 16 THEN <<>>
    ELSE LET t == x[k] + y[k] + carry
         IN  <<t % 16>> \o HexAddFrom(x, y, k + 1, t \div 16)

\* x + y modulo 2^64
HexAdd(x, y) == HexAddFrom(x, y, 1, 0)

\* the sum of the digit products of weight 16^(k-1)
RECURSIVE HexColumn(_, _, _, _)
HexColumn(x, y, k, i) ==
    IF i > k THEN 0 ELSE x[i] * y[k + 1 - i] + HexColumn(x, y, k, i + 1)

RECURSIVE HexMulFrom(_, _, _, _)
HexMulFrom(x, y, k, carry) ==
    IF k > 16 THEN <<>>
    ELSE LET t == HexColumn(x, y, k, 1) + carry
         IN  <<t % 16>> \o HexMulFrom(x, y, k + 1, t \div 16)

\* x * y modulo 2^64
HexMul(x, y) == HexMulFrom(x, y, 1, 0)

\* x >> 32
HexShr32(x) == SubSeq(x, 9, 16) \o <<0, 0, 0, 0, 0, 0, 0, 0>>

XorDigit(a, b) ==
    ((a + b) % 2) + 2 * ((a \div 2 + b \div 2) % 2) + 4 * ((a \div 4 + b \div 4) % 2)
    + 8 * ((a \div 8 + b \div 8) % 2)

RECURSIVE HexXorFrom(_, _, _)
HexXorFrom(x, y, k) ==
    IF k > 16 THEN <<>> ELSE <<XorDigit(x[k], y[k])>> \o HexXorFrom(x, y, k + 1)

\* x XOR y
HexXor(x, y) == HexXorFrom(x, y, 1)

\* the two-round mixer: s = seed + 0xe120fc15; t1 = s * 0x4a39b70d;
\* m1 = (t1 >> 32) XOR t1; t2 = m1 * 0x12fad5c9; result = (t2 >> 32) XOR t2
TwoRoundMixer(seed) ==
    LET s == HexAdd(seed, Hex32(<<14, 1, 2, 0, 15, 12, 1, 5>>))
        t1 == HexMul(s, Hex32(<<4, 10, 3, 9, 11, 7, 0, 13>>))
        m1 == HexXor(HexShr32(t1), t1)
        t2 == HexMul(m1, Hex32(<<1, 2, 15, 10, 13, 5, 12, 9>>))
    IN  HexXor(HexShr32(t2), t2)

\* C4: LehmerInt64(seed) depends on its seed alone and is the two-round mixer
\* with all arithmetic modulo 2^64, whatever calls came before it
C4_SeededMixerIsTwoRoundMixer ==
    call.op = "LehmerInt64(seed)" =>
        HexOf(call.ret) = TwoRoundMixer(HexOf(call.args[1]))

\* LehmerInt64(2^64 - 0xe120fc15) = 0 (the addition wraps), called after no-seed calls
C4_Witness ==
    /\ call.op = "LehmerInt64(seed)"
    /\ call.args[1] = U64Of(235, 3, 223, 30, 255, 255, 255, 255)
    /\ call.ret = Zero64
    /\ nCalls["int"] > 0

(***************************************************************************)
(* The pure functions: the initial state draws the arguments of one call   *)
(* from the sets below and the action makes the call.                      *)
(***************************************************************************)
Pure == UNCHANGED <<seedInt, seedFloat, seedBool, pc, reg, fam, nCalls, used>>

Pending(op, args) == [op |-> op, args |-> args, ret |-> 0, done |-> FALSE]

Returns(r) == call' = [call EXCEPT !.ret = r, !.done = TRUE]

F(n) == Dyadic(n, 0)

\* ---- tpl::Clamp and tpl::Lerp on int32_t
ClampInts == (0 - MaxVal)..MaxVal

LerpInts == {0, 1, 0 - 7, 100, 16777217, INT32_MAX, INT32_MIN}

Alphas == {FZero, Dyadic(1, 0 - 2), Dyadic(1, 0 - 1), Dyadic(3, 0 - 2), FOne}

InitCore ==
    /\ Statics
    /\ \/ \E value \in ClampInts, Min \in ClampInts, Max \in ClampInts :
            call = Pending("Clamp", <<value, Min, Max>>)
       \/ \E A \in LerpInts, B \in LerpInts, alpha \in Alphas :
            call = Pending("LerpInt32", <<A, B, alpha>>)

ClampCall ==
    /\ call.op = "Clamp" /\ ~call.done
    /\ Returns(Clamp(call.args[1], call.args[2], call.args[3]))
    /\ Pure

LerpInt32Call ==
    /\ call.op = "LerpInt32" /\ ~call.done
    /\ \E r \in LerpInt32(call.args[1], call.args[2], call.args[3]) : Returns(r)
    /\ Pure

NextCore == ClampCall \/ LerpInt32Call

SpecCore == InitCore /\ [][NextCore]_vars

\* ---- the range mapper
RangeFloats ==
    {F(0), F(3), F(5), F(7), F(0 - 5), Dyadic(1, 0 - 27), Dyadic(0 - 1, 0 - 27),
     Dyadic(1, 0 - 26), SMALL_NUMBER, [SMALL_NUMBER EXCEPT !.m = @ + 1]}

InBounds == {F(0), F(5), F(10)}
InValues == {F(0 - 5), F(0), F(3), F(5), F(10), F(15)}
\* 13421773 * 2^-27 is 0.1f
OutBounds == {F(0), F(100), F(0 - 1), Dyadic(13421773, 0 - 27)}

InitRange ==
    /\ Statics
    /\ \/ \E minValue \in RangeFloats, maxValue \in RangeFloats, value \in RangeFloats :
            call = Pending("GetRangeAlpha", <<minValue, maxValue, value>>)
       \/ \E inMin \in InBounds, inMax \in InBounds, outMin \in OutBounds,
             outMax \in OutBounds, value \in InValues,
             op \in {"GetMappedValueUnclamped", "GetMappedValueClamped"} :
            call = Pending(op, <<inMin, inMax, outMin, outMax, value>>)

GetRangeAlphaCall ==
    /\ call.op = "GetRangeAlpha" /\ ~call.done
    /\ Returns(GetRangeAlpha(call.args[1], call.args[2], call.args[3]))
    /\ Pure

GetMappedValueUnclampedCall ==
    /\ call.op = "GetMappedValueUnclamped" /\ ~call.done
    /\ Returns(GetMappedValueUnclamped(call.args[1], call.args[2], call.args[3],
                                       call.args[4], call.args[5]))
    /\ Pure

GetMappedValueClampedCall ==
    /\ call.op = "GetMappedValueClamped" /\ ~call.done
    /\ Returns(GetMappedValueClamped(call.args[1], call.args[2], call.args[3],
                                     call.args[4], call.args[5]))
    /\ Pure

NextRange ==
    \/ GetRangeAlphaCall
    \/ GetMappedValueUnclampedCall
    \/ GetMappedValueClampedCall

SpecRange == InitRange /\ [][NextRange]_vars

\* ---- reverseBits
HighParts == {<<0, 0, 0>>, <<1, 0, 0>>, <<0, 0, 128>>, <<255, 255, 255>>}

InitBits ==
    /\ Statics
    /\ \E b \in Byte, h \in HighParts :
            call = Pending("reverseBits", <<U32Of(b, h[1], h[2], h[3])>>)

reverseBitsCall ==
    /\ call.op = "reverseBits" /\ ~call.done
    /\ Returns(reverseBits(call.args[1]))
    /\ Pure

NextBits == reverseBitsCall

SpecBits == InitBits /\ [][NextBits]_vars

\* ---- findInVector
Elems == {1, 2, 3}
Vectors == UNION {[1..n -> Elems] : n \in 0..MaxLen}

InitSearch ==
    /\ Statics
    /\ \/ \E a \in Elems, vect \in Vectors : call = Pending("findInVector", <<a, vect>>)
       \/ \E a \in Elems, vect \in Vectors, nth \in 0..MaxNth :
            call = Pending("findInVectorNth", <<a, vect, nth>>)

findInVectorCall ==
    /\ call.op = "findInVector" /\ ~call.done
    /\ Returns(findInVector(call.args[1], call.args[2]))
    /\ Pure

findInVectorNthCall ==
    /\ call.op = "findInVectorNth" /\ ~call.done
    /\ Returns(findInVectorNth(call.args[1], call.args[2], call.args[3]))
    /\ Pure

NextSearch == findInVectorCall \/ findInVectorNthCall

SpecSearch == InitSearch /\ [][NextSearch]_vars

(***************************************************************************)
(* Properties of the pure functions.                                       *)
(***************************************************************************)
\* x <= 10^-8 for a float x >= 0, exactly: x.m * 390625 * 2^(x.e + 8) <= 1,
\* where 2^41 < x.m * 390625 < 2^43 and the product is kept in two parts
AtMost1e8(x) ==
    \/ x.m = 0
    \/ x.e + 8 <= 0 - 43
    \/ /\ x.e + 8 = 0 - 42
       /\ LET low == (x.m % 4096) * 390625
              hi == (x.m \div 4096) * 390625 + low \div 4096
          IN  hi < 2 ^ 30 \/ (hi = 2 ^ 30 /\ low % 4096 = 0)

\* the float x is an integer of magnitude at most 15
IsSmallInt(x) ==
    x.m = 0 \/ (x.e <= 0 /\ x.e >= 0 - 23 /\ x.m % (2 ^ (0 - x.e)) = 0
                /\ x.m \div (2 ^ (0 - x.e)) <= 15)

IntOf(x) == IF x.m = 0 THEN 0 ELSE Signed(x) \div (2 ^ (0 - x.e))

Abs(n) == IF n < 0 THEN 0 - n ELSE n

\* r is a float nearest to n / d, for integers n and d # 0 of magnitude below 32
NearestTo(r, n, d) ==
    IF n = 0 THEN r.m = 0
    ELSE /\ r.m # 0
         /\ (r.s = 1) <=> ((n < 0) # (d < 0))
         /\ r.e < 0 /\ r.e >= 0 - 26
         /\ 2 * Abs(r.m * Abs(d) - Abs(n) * (2 ^ (0 - r.e))) <= Abs(d)

\* C5: GetRangeAlpha does not divide when |maxValue - minValue| <= 1e-8 and then
\* returns 1.0 if value >= maxValue and 0.0 otherwise; for every other range it
\* returns (value - minValue) / (maxValue - minValue)
C5_RangeAlphaGuardsTheDivision ==
    (call.op = "GetRangeAlpha" /\ call.done) =>
        LET minValue == call.args[1]
            maxValue == call.args[2]
            value == call.args[3]
            range == FSub(maxValue, minValue)
        IN  IF AtMost1e8(FAbs(range))
            THEN call.ret = IF FGe(value, maxValue) THEN FOne ELSE FZero
            ELSE /\ call.ret = FDiv(FSub(value, minValue), range)
                 /\ (IsSmallInt(minValue) /\ IsSmallInt(maxValue) /\ IsSmallInt(value)) =>
                        NearestTo(call.ret, IntOf(value) - IntOf(minValue),
                                  IntOf(maxValue) - IntOf(minValue))

\* a range of 2^-27, below the tolerance and not zero, with value == maxValue
C5_Witness ==
    /\ call.op = "GetRangeAlpha" /\ call.done
    /\ call.args = <<FZero, Dyadic(1, 0 - 27), Dyadic(1, 0 - 27)>>
    /\ call.ret = FOne

\* C6: for outMin <= outMax the result of GetMappedValueClamped lies within
\* [outMin, outMax], whatever the input range and the value
C6_ClampedMappingStaysInOutputRange ==
    (call.op = "GetMappedValueClamped" /\ call.done /\ FLe(call.args[3], call.args[4])) =>
        /\ FLe(call.args[3], call.ret)
        /\ FLe(call.ret, call.args[4])

\* the numerator n of alpha = n / 4
Quarters(alpha) == CHOOSE n \in 0..4 : Dyadic(n, 0 - 2) = alpha

\* the quotient p / 4 converted to an integer: truncation toward zero
Trunc4(p) == IF p < 0 THEN 0 - ((0 - p) \div 4) ELSE p \div 4

\* C7: Lerp on int32_t returns A + alpha * (B - A), computed without overflow
\* and converted to int32_t, for alpha in [0, 1]; Lerp(A, B, 0) = A and
\* Lerp(A, B, 1) = B.  (For alpha strictly between, stated for |A|, |B| <= 100.)
C7_IntegralLerpIsExact ==
    (call.op = "LerpInt32" /\ call.done) =>
        LET A == call.args[1]
            B == call.args[2]
            n == Quarters(call.args[3])
        IN  /\ n = 0 => call.ret = Value(A)
            /\ n = 4 => call.ret = Value(B)
            /\ (0 - 100 <= A /\ A <= 100 /\ 0 - 100 <= B /\ B <= 100) =>
                    call.ret = Value(Trunc4(4 * A + n * (B - A)))

\* the byte b with its bits in reverse order
RevByte(b) ==
    128 * (b % 2) + 64 * ((b \div 2) % 2) + 32 * ((b \div 4) % 2) + 16 * ((b \div 8) % 2)
    + 8 * ((b \div 16) % 2) + 4 * ((b \div 32) % 2) + 2 * ((b \div 64) % 2) + (b \div 128)

\* the byte b with every two neighbouring groups of w bits exchanged
RECURSIVE SwapFrom(_, _, _)
SwapFrom(b, w, j) ==
    IF j * 2 * w >= 8 THEN 0
    ELSE LET pair == (b \div (2 ^ (2 * w * j))) % (2 ^ (2 * w))
         IN  ((pair % (2 ^ w)) * (2 ^ w) + pair \div (2 ^ w)) * (2 ^ (2 * w * j))
             + SwapFrom(b, w, j + 1)

SwapGroups(b, w) == SwapFrom(b, w, 0)

\* C8: reverseBits returns the 8-bit reversal of the low byte of its argument,
\* made by the nibble swap, the 2-bit swap and the 1-bit swap in this order; the
\* bits 8..31 of the argument have no influence and the result is below 256
C8_ReverseBitsReversesTheLowByte ==
    (call.op = "reverseBits" /\ call.done) =>
        LET b == call.args[1][1]
        IN  /\ call.ret = U32Of(RevByte(b), 0, 0, 0)
            /\ call.ret[1] = SwapGroups(SwapGroups(SwapGroups(b, 4), 2), 1)

\* 0b11010010 below set high bits gives 0b01001011
C8_Witness ==
    /\ call.op = "reverseBits" /\ call.done
    /\ call.args[1] = U32Of(210, 255, 255, 255)
    /\ call.ret = U32Of(75, 0, 0, 0)

\* the 1-based positions of a in vect
Occurrences(a, vect) == {i \in 1..Len(vect) : vect[i] = a}

\* C9: for n >= 1 the nth search returns the 0-based index of the n-th occurrence
\* of the target, or -1 when there are fewer than n; with n = 1 it returns what
\* findInVector(target, sequence) returns, the smallest index holding the target
\* or -1
C9_FindReturnsTheNthOccurrence ==
    /\ (call.op = "findInVector" /\ call.done) =>
        LET occ == Occurrences(call.args[1], call.args[2])
        IN  IF occ = {} THEN call.ret = 0 - 1
            ELSE call.ret + 1 \in occ /\ \A i \in occ : call.ret + 1 <= i
    /\ (call.op = "findInVectorNth" /\ call.done /\ call.args[3] >= 1) =>
        LET occ == Occurrences(call.args[1], call.args[2])
            n == call.args[3]
        IN  /\ IF Cardinality(occ) < n THEN call.ret = 0 - 1
               ELSE /\ call.ret + 1 \in occ
                    /\ Cardinality({i \in occ : i < call.ret + 1}) = n - 1
            /\ n = 1 => call.ret = findInVector(call.args[1], call.args[2])

\* the second 3 of <<1, 3, 2, 3>> is at index 3
C9_Witness ==
    /\ call.op = "findInVectorNth" /\ call.done
    /\ call.args = <<3, <<1, 3, 2, 3>>, 2>>
    /\ call.ret = 3

\* C10: Clamp returns min when value < min, value when min <= value < max and max
\* otherwise; so for min <= max the result lies in [min, max],
\* Clamp(min, min, max) = min and Clamp(max, min, max) = max
C10_ClampReturnsTheNearestBound ==
    (call.op = "Clamp" /\ call.done) =>
        LET value == call.args[1]
            min == call.args[2]
            max == call.args[3]
        IN  /\ call.ret = IF value < min THEN min
                          ELSE IF min <= value /\ value < max THEN value ELSE max
            /\ min <= max => (min <= call.ret /\ call.ret <= max)
            /\ (min <= max /\ value = min) => call.ret = min
            /\ (min <= max /\ value = max) => call.ret = max

\* value == max, on the boundary of the half-open comparison
C10_Witness ==
    /\ call.op = "Clamp" /\ call.done
    /\ call.args = <<2, 0 - 1, 2>>
    /\ call.ret = 2

====
